---- MODULE Spec2Model ----
(***************************************************************************)
(* Model of update_jdlogistics_json.py: one run of main() decides, from    *)
(* the wall clock, the environment, the provider's answer and the output   *)
(* file, whether jd-logistics-latest.json is overwritten.                  *)
(*                                                                         *)
(* Strings are sequences of one-character strings, so that strftime, the   *)
(* YYYY-MM-DD formatting of row_to_json, the dash removal of               *)
(* load_existing_date and strip()/lower() are computed, not assumed.       *)
(* Floats are exact multiples of 1/200 (prices are multiples of 1/8, which *)
(* a binary float holds exactly; rounded values are multiples of 1/100).   *)
(***************************************************************************)
EXTENDS Integers, Sequences, FiniteSets, TLC

VARIABLES file, run, lastWrite

vars == <<file, run, lastWrite>>

-----------------------------------------------------------------------------
(* Bounds of the model *)

\* number of consecutive calendar days the clock and the trade dates range over
NumDays == 7

\* largest number of rows in a provider answer
MaxRows == 2

-----------------------------------------------------------------------------
(* Program constants *)

\* 5 = Saturday, 6 = Sunday (date.weekday())
SatWeekday == 5

CutoffHour == 17

CutoffMinute == 30

BjOffsetHours == 8

DateFieldLen == 10

RoundDigits == 2

TS_CODE == <<"0", "2", "6", "1", "8", ".", "H", "K">>

-----------------------------------------------------------------------------
(* Strings *)

Digits == <<"0", "1", "2", "3", "4", "5", "6", "7", "8", "9">>

\* characters in ascending code point order; Ord is the rank of a character
CodeOrder == <<" ", "-", ".", "/", "0", "1", "2", "3", "4", "5", "6", "7", "8",
               "9", "E", "H", "K", "N", "O", "R", "S", "T", "U", "Y",
               "e", "k", "n", "o", "r", "s", "t", "u", "y">>

Ord(c) == CHOOSE i \in 1..Len(CodeOrder) : CodeOrder[i] = c

\* Python's < on str: lexicographic by code point, a proper prefix is smaller
RECURSIVE StrLess(_, _)
StrLess(a, b) ==
    IF b = <<>> THEN FALSE
    ELSE IF a = <<>> THEN TRUE
    ELSE IF Head(a) = Head(b) THEN StrLess(Tail(a), Tail(b))
    ELSE Ord(Head(a)) < Ord(Head(b))

LowerChar(c) ==
    CASE c = "E" -> "e" [] c = "H" -> "h" [] c = "K" -> "k" [] c = "N" -> "n"
      [] c = "O" -> "o" [] c = "R" -> "r" [] c = "S" -> "s" [] c = "T" -> "t"
      [] c = "U" -> "u" [] c = "Y" -> "y" [] OTHER -> c

\* str.lower()
StrLower(s) == [i \in 1..Len(s) |-> LowerChar(s[i])]

\* str.strip(): leading and trailing whitespace removed
RECURSIVE LStrip(_)
LStrip(s) == IF s # <<>> /\ Head(s) = " " THEN LStrip(Tail(s)) ELSE s

RECURSIVE RStrip(_)
RStrip(s) ==
    IF s # <<>> /\ s[Len(s)] = " " THEN RStrip(SubSeq(s, 1, Len(s) - 1)) ELSE s

StrStrip(s) == RStrip(LStrip(s))

\* str.replace(old, ""), for a one-character old
RECURSIVE StrRemove(_, _)
StrRemove(s, c) ==
    IF s = <<>> THEN <<>>
    ELSE IF Head(s) = c THEN StrRemove(Tail(s), c)
    ELSE <<Head(s)>> \o StrRemove(Tail(s), c)

\* Python slice s[i:j] (0-based, end exclusive, clipped to the string)
Slice(s, i, j) ==
    LET hi == IF j > Len(s) THEN Len(s) ELSE j
    IN  IF i >= hi THEN <<>> ELSE SubSeq(s, i + 1, hi)

\* zero-padded decimal of n in w digits (%Y, %m, %d)
RECURSIVE Pad(_, _)
Pad(n, w) == IF w = 0 THEN <<>> ELSE Pad(n \div 10, w - 1) \o <<Digits[(n % 10) + 1]>>

-----------------------------------------------------------------------------
(* Dates: a date is its number of days since 1970-01-01 *)

\* first day of the window: 2023-12-28, a Thursday
FirstDay == 19719

Days == FirstDay .. (FirstDay + NumDays - 1)

\* date.weekday(): 0 = Monday .. 6 = Sunday (1970-01-01 was a Thursday)
Weekday(d) == (d + 3) % 7

\* the proleptic Gregorian year, month and day of a day number
Civil(d) ==
    LET z   == d + 719468
        era == z \div 146097
        doe == z - era * 146097
        yoe == (doe - doe \div 1460 + doe \div 36524 - doe \div 146096) \div 365
        doy == doe - (365 * yoe + yoe \div 4 - yoe \div 100)
        mp  == (5 * doy + 2) \div 153
        dd  == doy - (153 * mp + 2) \div 5 + 1
        mm  == IF mp < 10 THEN mp + 3 ELSE mp - 9
        yy  == yoe + era * 400 + (IF mm <= 2 THEN 1 ELSE 0)
    IN  [y |-> yy, m |-> mm, d |-> dd]

\* date.strftime("%Y%m%d")
Strftime(d) ==
    LET c == Civil(d) IN Pad(c.y, 4) \o Pad(c.m, 2) \o Pad(c.d, 2)

-----------------------------------------------------------------------------
(* Datetimes (naive, microsecond resolution) *)

DateTime(day, h, mi, sec, us) ==
    [day |-> day, hour |-> h, minute |-> mi, second |-> sec, micro |-> us]

NoTime == DateTime(0, 0, 0, 0, 0)

\* datetime + timedelta(hours = n), for 0 <= n < 24
AddHours(t, n) ==
    IF t.hour + n >= 24
    THEN [t EXCEPT !.day = t.day + 1, !.hour = t.hour + n - 24]
    ELSE [t EXCEPT !.hour = t.hour + n]

\* datetime >= datetime
DateTimeGeq(a, b) ==
    LET ka == <<a.day, a.hour, a.minute, a.second, a.micro>>
        kb == <<b.day, b.hour, b.minute, b.second, b.micro>>
    IN  \/ ka = kb
        \/ \E i \in 1..5 : /\ ka[i] > kb[i]
                           /\ \A j \in 1..(i - 1) : ka[j] = kb[j]

\* bj_now(): the UTC wall clock plus eight hours
bj_now(utc) == AddHours(utc, BjOffsetHours)

prev_weekday_skip_none(d) == d

RECURSIVE prev_weekday(_)
prev_weekday(d) == IF Weekday(d) >= SatWeekday THEN prev_weekday(d - 1) ELSE d

expected_trade_date_bj_strict_cutoff(now_bj) ==
    LET today  == now_bj.day
        cutoff == [now_bj EXCEPT !.hour = CutoffHour, !.minute = CutoffMinute,
                                 !.second = 0, !.micro = 0]
    IN  IF Weekday(today) >= SatWeekday
        THEN Strftime(prev_weekday(today))
        ELSE IF DateTimeGeq(now_bj, cutoff) /\ now_bj # cutoff
             THEN Strftime(today)
             ELSE Strftime(prev_weekday(today - 1))

expected_trade_date_bj_weekend_today(now_bj) ==
    LET today  == now_bj.day
        cutoff == [now_bj EXCEPT !.hour = CutoffHour, !.minute = CutoffMinute,
                                 !.second = 0, !.micro = 0]
    IN  IF DateTimeGeq(now_bj, cutoff)
        THEN Strftime(today)
        ELSE Strftime(prev_weekday(today - 1))

expected_trade_date_bj(now_bj) ==
    LET today  == now_bj.day
        cutoff == [now_bj EXCEPT !.hour = CutoffHour, !.minute = CutoffMinute,
                                 !.second = 0, !.micro = 0]
    IN  IF Weekday(today) >= SatWeekday
        THEN Strftime(prev_weekday(today))
        ELSE IF DateTimeGeq(now_bj, cutoff)
             THEN Strftime(today)
             ELSE Strftime(prev_weekday(today - 1))

-----------------------------------------------------------------------------
(* Values: what a cell of the provider's row, or a JSON value, can hold *)

\* ticks per unit: every float of the model is a whole number of 1/200
Scale == 8 * 25

Val(t, s, n) == [t |-> t, s |-> s, n |-> n]

Absent == Val("absent", <<>>, 0)   \* no such column / no such key
None   == Val("none", <<>>, 0)     \* Python None, JSON null
NaN    == Val("nan", <<>>, 0)      \* float('nan'), the missing value of a float column
Str(s) == Val("str", s, 0)
Num(n) == Val("num", <<>>, n)      \* a float, in ticks
IntV(n) == Val("int", <<>>, n)      \* an int
Other  == Val("list", <<>>, 0)     \* a JSON array

\* float(x) of a number
Float(v) == IF v.t = "int" THEN Num(v.n * Scale) ELSE v

\* ticks of one unit in the last kept decimal: 10^-ndigits
RECURSIVE Pow10(_)
Pow10(k) == IF k = 0 THEN 1 ELSE 10 * Pow10(k - 1)

\* round(x, ndigits) of a float: to the nearest, an exact tie to the even digit
Round(v, ndigits) ==
    LET step == Scale \div Pow10(ndigits)
        q    == v.n \div step
        r    == v.n % step
    IN  IF v.t = "nan" THEN v
        ELSE IF 2 * r < step THEN Num(q * step)
        ELSE IF 2 * r > step THEN Num((q + 1) * step)
        ELSE IF q % 2 = 0 THEN Num(q * step)
        ELSE Num((q + 1) * step)

\* int(float(x)): truncation towards zero
IntOfFloat(v) ==
    LET f == Float(v)
    IN  IF f.n >= 0 THEN f.n \div Scale ELSE -((-f.n) \div Scale)

-----------------------------------------------------------------------------
(* The provider's rows and row_to_json *)

Row(td, o, h, l, c, vol, amount) ==
    [trade_date |-> td, open |-> o, high |-> h, low |-> l, close |-> c,
     vol |-> vol, amount |-> amount]

NoRow == Row(<<>>, Absent, Absent, Absent, Absent, Absent, Absent)

Record(symbol, date, o, h, l, c, volume, amount) ==
    [symbol |-> symbol, date |-> date, open |-> o, high |-> h, low |-> l,
     close |-> c, volume |-> volume, amount |-> amount]

NoData == Record(Absent, Absent, Absent, Absent, Absent, Absent, Absent, Absent)

\* Series.get(key, default)
Get(cell, default) == IF cell.t = "absent" THEN default ELSE cell

row_to_json_no_dashes(latest, ts_code) ==
    LET close_p  == Float(latest.close)
        vol      == Get(latest.vol, IntV(0))
        amount   == Get(latest.amount, None)
        volume_i == IF vol # None THEN IntOfFloat(vol) ELSE 0
        amount_f == IF amount = None \/ amount = Str(<<>>)
                    THEN Round(Num(close_p.n * volume_i), RoundDigits)
                    ELSE Float(amount)
    IN  Record(Str(ts_code), Str(latest.trade_date),
               Round(Float(latest.open), RoundDigits),
               Round(Float(latest.high), RoundDigits),
               Round(Float(latest.low), RoundDigits),
               Round(close_p, RoundDigits),
               IntV(volume_i), Round(amount_f, RoundDigits))

row_to_json(latest, ts_code) ==
    LET open_p   == Float(latest.open)
        high_p   == Float(latest.high)
        low_p    == Float(latest.low)
        close_p  == Float(latest.close)
        vol      == Get(latest.vol, IntV(0))
        amount   == Get(latest.amount, None)
        volume_i == IF vol # None THEN IntOfFloat(vol) ELSE 0
        amount_f == IF amount = None \/ amount = Str(<<>>)
                    THEN Round(Num(close_p.n * volume_i), RoundDigits)
                    ELSE Float(amount)
        td       == latest.trade_date
        date_fmt == Slice(td, 0, 4) \o <<"-">> \o Slice(td, 4, 6) \o <<"-">>
                    \o Slice(td, 6, 8)
    IN  Record(Str(ts_code), Str(date_fmt),
               Round(open_p, RoundDigits), Round(high_p, RoundDigits),
               Round(low_p, RoundDigits), Round(close_p, RoundDigits),
               IntV(volume_i), Round(amount_f, RoundDigits))

-----------------------------------------------------------------------------
(* The output file *)

\* kind: "missing" (no such file), "garbage" (not JSON), "json";
\* top: the type of the JSON document; obj: its keys when it is an object
File(kind, top, obj) == [kind |-> kind, top |-> top, obj |-> obj]

Missing == File("missing", "none", NoData)
Garbage == File("garbage", "none", NoData)

\* json.dump(data, f, ensure_ascii=False, indent=2) on a truncated file
DumpJson(data) == File("json", "object", data)

\* existing_td: None, or the string
NoDate  == [some |-> FALSE, s |-> <<>>]
Date(s) == [some |-> TRUE, s |-> s]

load_existing_date_any_length(f) ==
    IF f.kind # "json" \/ f.top # "object" THEN NoDate
    ELSE LET d == f.obj.date
         IN  IF d.t # "str" \/ d.s = <<>> THEN NoDate
             ELSE Date(StrRemove(d.s, "-"))

load_existing_date_keep_dashes(f) ==
    IF f.kind # "json" \/ f.top # "object" THEN NoDate
    ELSE LET d == f.obj.date
         IN  IF d.t # "str" \/ d.s = <<>> \/ Len(d.s) # DateFieldLen THEN NoDate
             ELSE Date(d.s)

load_existing_date(f) ==
    IF f.kind = "missing" THEN NoDate                   \* FileNotFoundError
    ELSE IF f.kind = "garbage" THEN NoDate              \* json.load raises
    ELSE IF f.top # "object" THEN NoDate                \* no .get: AttributeError
    ELSE LET d == f.obj.date                            \* obj.get("date")
         IN  IF d.t \in {"absent", "none"} THEN NoDate  \* not d
             ELSE IF d.t = "str" /\ d.s = <<>> THEN NoDate
             ELSE IF d.t \in {"num", "int"} /\ d.n = 0 THEN NoDate
             ELSE IF d.t \in {"num", "int", "nan"} THEN NoDate  \* len(): TypeError
             ELSE IF d.t = "list" THEN NoDate   \* empty, or no .replace
             ELSE IF Len(d.s) # DateFieldLen THEN NoDate
             ELSE Date(StrRemove(d.s, "-"))

-----------------------------------------------------------------------------
(* The environment *)

\* an environment variable: unset, or set to a string
Env(isSet, val) == [set |-> isSet, val |-> val]

Unset == Env(FALSE, <<>>)

\* os.getenv(name, default)
Getenv(env, default) == IF env.set THEN env.val ELSE default

TokenMissing_only_unset(env) == ~env.set

\* not token: os.getenv gave None or ""
TokenMissing(env) == ~env.set \/ env.val = <<>>

TruthyWords == {<<"1">>, <<"t", "r", "u", "e">>, <<"y", "e", "s">>}

\* os.getenv("FORCE_UPDATE", "").strip().lower() in ("1", "true", "yes")
ForceFlag(env) == StrLower(StrStrip(Getenv(env, <<>>))) \in TruthyWords

-----------------------------------------------------------------------------
(* fetch_hk_daily_latest *)

\* the provider's answer: None, or a dataframe of rows (in the provider's order)
Df(isNone, rows) == [none |-> isNone, rows |-> rows]

NoneDf == Df(TRUE, <<>>)

\* df.sort_values("trade_date"): ascending by the trade_date string
RECURSIVE Insert(_, _)
Insert(r, sorted) ==
    IF sorted = <<>> THEN <<r>>
    ELSE IF StrLess(r.trade_date, Head(sorted).trade_date)
         THEN <<r>> \o sorted
         ELSE <<Head(sorted)>> \o Insert(r, Tail(sorted))

RECURSIVE SortValues(_)
SortValues(rows) ==
    IF rows = <<>> THEN <<>> ELSE Insert(Head(rows), SortValues(Tail(rows)))

\* df is None or df.empty
NoRows(df) == df.none \/ df.rows = <<>>

\* df.sort_values("trade_date").iloc[-1]
LatestRow(df) == LET sorted == SortValues(df.rows) IN sorted[Len(sorted)]

-----------------------------------------------------------------------------
(* main: the decisions *)

SkipStale_reversed(latest_td, expected_td, force) ==
    StrLess(expected_td, latest_td) /\ ~force

\* (latest_td < expected_td) and (not force)
SkipStale(latest_td, expected_td, force) ==
    StrLess(latest_td, expected_td) /\ ~force

SkipSame_ignores_force(existing_td, latest_td, force) ==
    existing_td = Date(latest_td)

\* existing_td == latest_td and not force
SkipSame(existing_td, latest_td, force) ==
    existing_td = Date(latest_td) /\ ~force

-----------------------------------------------------------------------------
(* main: one run *)

\* the last write of the file by a run: the trade date written and the expected
\* date of that run (history, kept across runs)
NoWrite == [some |-> FALSE, td |-> <<>>, expected |-> <<>>]

Write(td, expected) == [some |-> TRUE, td |-> td, expected |-> expected]

\* what a run read, computed and did; fields it never reached keep their defaults.
\* answer: what the provider returned ("unasked", "none", "empty", "rows")
Run(status, token, now, expected, queries, answer, latest, forceEnv, force, data, existing, prevFile, prevWrite, writes) ==
    [status |-> status, token |-> token, now_bj_dt |-> now,
     expected_td |-> expected, queries |-> queries, answer |-> answer,
     latest |-> latest, forceEnv |-> forceEnv, force |-> force, data |-> data,
     existing_td |-> existing, prevFile |-> prevFile, prevWrite |-> prevWrite,
     writes |-> writes]

\* status "idle": no run in progress or finished
Idle(f, w) ==
    Run("idle", Unset, NoTime, <<>>, 0, "unasked", NoRow, Unset, FALSE, NoData,
        NoDate, f, w, 0)

\* a run of main() with the given token, at UTC time utc, the provider answering
\* df and FORCE_UPDATE being forceEnv (read only when the run gets that far)
Main(tokens, clocks, answers, forces) ==
    /\ run.status = "idle"
    /\ \E token \in tokens :
      IF TokenMissing(token)
      THEN \* raise RuntimeError: before set_token, bj_now and the query
           /\ run' = Run("error", token, NoTime, <<>>, 0, "unasked", NoRow, Unset,
                         FALSE, NoData, NoDate, file, lastWrite, 0)
           /\ UNCHANGED <<file, lastWrite>>
      ELSE \E utc \in clocks, df \in answers :
        LET now_bj_dt   == bj_now(utc)
            expected_td == expected_trade_date_bj(now_bj_dt)
        IN  IF NoRows(df)
            THEN \* latest is None: exit without updating
                 /\ run' = Run("nodata", token, now_bj_dt, expected_td, 1,
                               IF df.none THEN "none" ELSE "empty", NoRow,
                               Unset, FALSE, NoData, NoDate, file, lastWrite, 0)
                 /\ UNCHANGED <<file, lastWrite>>
            ELSE \E forceEnv \in forces :
              LET latest      == LatestRow(df)
                  latest_td   == latest.trade_date
                  force       == ForceFlag(forceEnv)
                  data        == row_to_json(latest, TS_CODE)
                  existing_td == load_existing_date(file)
              IN  IF SkipStale(latest_td, expected_td, force)
                  THEN /\ run' = Run("stale", token, now_bj_dt, expected_td, 1,
                                     "rows", latest, forceEnv, force, NoData,
                                     NoDate, file, lastWrite, 0)
                       /\ UNCHANGED <<file, lastWrite>>
                  ELSE IF SkipSame(existing_td, latest_td, force)
                  THEN /\ run' = Run("same", token, now_bj_dt, expected_td, 1,
                                     "rows", latest, forceEnv, force, data,
                                     existing_td, file, lastWrite, 0)
                       /\ UNCHANGED <<file, lastWrite>>
                  ELSE /\ run' = Run("written", token, now_bj_dt, expected_td, 1,
                                     "rows", latest, forceEnv, force, data,
                                     existing_td, file, lastWrite, 1)
                       /\ file' = DumpJson(data)
                       /\ lastWrite' = Write(latest_td, expected_td)

\* the process ends; the scheduler may start the next run
Exit ==
    /\ run.status # "idle"
    /\ run' = Idle(file, lastWrite)
    /\ UNCHANGED <<file, lastWrite>>

-----------------------------------------------------------------------------
(* Inputs *)

NoToken    == Unset
EmptyToken == Env(TRUE, <<>>)
SomeToken  == Env(TRUE, <<"t", "o", "k">>)

TokenEnvs == {NoToken, EmptyToken, SomeToken}

\* FORCE_UPDATE values that ask for the override ...
TruthyForceEnvs ==
    {Env(TRUE, <<"1">>), Env(TRUE, <<" ", "T", "r", "u", "e", " ">>),
     Env(TRUE, <<"Y", "E", "S">>)}

\* ... and values that do not
FalsyForceEnvs == {Unset, Env(TRUE, <<"0">>)}

ForceEnvs == TruthyForceEnvs \cup FalsyForceEnvs

ClocksAt(times) ==
    {DateTime(d, t[1], t[2], t[3], t[4]) : d \in Days, t \in times}

\* UTC 02:00 and 09:30, which are 10:00 and 17:30:00 in UTC+8
Clocks == ClocksAt({<<2, 0, 0, 0>>, <<9, 30, 0, 0>>})

\* in UTC+8: 10:00, 16:45, 17:29:59.999999, 17:30:00, 18:00, 04:00 of the next day
CutoffClocks ==
    ClocksAt({<<2, 0, 0, 0>>, <<8, 45, 0, 0>>, <<9, 29, 59, 999999>>,
              <<9, 30, 0, 0>>, <<10, 0, 0, 0>>, <<20, 0, 0, 0>>})

\* the provider's bar of day d: prices in eighths around 12.00 and a volume with a
\* fraction, all depending on the day. Prices and volume are always numbers: a
\* cell float() or int() cannot convert makes row_to_json raise, which main does
\* not handle
Bar(d, amount) ==
    LET k == d - FirstDay
    IN  Row(Strftime(d), Num(12 * Scale + 25 * k), Num(12 * Scale + 25 * (k + 3)),
            Num(12 * Scale + 25 * (k - 1)), Num(12 * Scale + 25 * (k + 1)),
            Num((1000 + k) * Scale + 100), amount)

GivenAmount == Num(12345 * Scale + 25)

\* the n consecutive days ending with day d, oldest first or newest first
History(d, n, newestFirst) ==
    [i \in 1..n |->
        Bar(IF newestFirst THEN d - (i - 1) ELSE d - (n - i), GivenAmount)]

\* None, an empty dataframe, or up to MaxRows rows
Answers ==
    {NoneDf, Df(FALSE, <<>>)} \cup
    {Df(FALSE, History(d, n, o)) : d \in Days, n \in 1..MaxRows, o \in BOOLEAN}

CutoffAnswers == {NoneDf, Df(FALSE, History(FirstDay + 1, 1, FALSE))}

\* one-row answers: what the close, vol and amount cells of the row may hold.
\* The amount may be missing in each way a dataframe row can miss it: no such
\* column, None, an empty string, or NaN (a null in a column of floats)
RowCloses == {Num(25), Num(12 * Scale + 75), Num(12 * Scale + 100)}

RowVols == {Absent, None, IntV(1000), Num(3 * Scale + 100)}

RowAmounts ==
    {Absent, None, Str(<<>>), NaN, Num(12345 * Scale + 25), Num(777 * Scale + 50)}

RowAnswers ==
    {NoneDf} \cup
    {Df(FALSE, <<Row(Strftime(FirstDay + 1), Num(12 * Scale), Num(13 * Scale),
                     Num(11 * Scale), c, v, a)>>) :
        c \in RowCloses, v \in RowVols, a \in RowAmounts}

RowClocks == {DateTime(FirstDay + 1, 9, 30, 0, 0)}

\* a record an earlier version of the job left behind, with other prices
OldRecord(date) ==
    Record(Str(TS_CODE), date, Num(11 * Scale), Num(11 * Scale + 50),
           Num(10 * Scale), Num(11 * Scale + 20), IntV(500), Num(5000 * Scale))

\* a day as YYYY-MM-DD
Dashed(d) ==
    LET c == Civil(d) IN Pad(c.y, 4) \o <<"-">> \o Pad(c.m, 2) \o <<"-">> \o Pad(c.d, 2)

\* files load_existing_date finds no date in
NoFiles ==
    {Missing, Garbage, File("json", "null", NoData), File("json", "array", NoData)}

BadDates ==
    {Absent, None, Str(<<>>), Str(<<"2", "0", "2", "4", "-", "1", "-", "0", "2">>),
     Str(Strftime(FirstDay + 1))}

OddDates == {IntV(20231229), Other, Str(Strftime(FirstDay + 1) \o <<"-", "-">>)}

\* what the output file may hold before the first run
InitFiles ==
    NoFiles \cup {File("json", "object", OldRecord(v)) : v \in BadDates \cup OddDates}
    \cup {File("json", "object", OldRecord(Str(Dashed(d)))) :
            d \in {FirstDay + 1, FirstDay + 4}}

-----------------------------------------------------------------------------
(* Specifications *)

Init == /\ file \in InitFiles
        /\ lastWrite = NoWrite
        /\ run = Idle(file, lastWrite)

\* runs of the job, one after the other
Next == Main(TokenEnvs, Clocks, Answers, ForceEnvs) \/ Exit

Spec == Init /\ [][Next]_vars

\* the same runs at times around the 17:30 cutoff
NextCutoff == Main(TokenEnvs, CutoffClocks, CutoffAnswers, ForceEnvs) \/ Exit

SpecCutoff == Init /\ [][NextCutoff]_vars

\* the same runs on one-row answers with every kind of cell
NextRow == Main(TokenEnvs, RowClocks, RowAnswers, ForceEnvs) \/ Exit

SpecRow == Init /\ [][NextRow]_vars

-----------------------------------------------------------------------------
(* Vocabulary of the properties *)

\* the YYYYMMDD and YYYY-MM-DD strings of the days a run can meet
DayRange == (FirstDay - 7) .. (FirstDay + NumDays + 1)

DayTable == [d \in DayRange |-> Strftime(d)]

DashedTable == [d \in DayRange |-> Dashed(d)]

\* the day a YYYYMMDD string names
DayOf(td) == CHOOSE d \in DayRange : DayTable[d] = td

\* a run has happened and has not yet been cleared away
Started == run.status # "idle"

\* the run had the credential and the provider returned at least one row
GotRows == run.token = SomeToken /\ run.answer = "rows"

\* the fetched latest trade date is strictly earlier than the expected date
LatestEarlier == DayOf(run.latest.trade_date) < DayOf(run.expected_td)

NotForced == run.forceEnv \in FalsyForceEnvs

Forced == run.forceEnv \in TruthyForceEnvs

FileUntouched == file = run.prevFile /\ run.writes = 0 /\ lastWrite = run.prevWrite

\* the file now holds the record of the fetched latest bar
FileHoldsLatest ==
    /\ file.kind = "json" /\ file.top = "object"
    /\ file.obj.symbol = Str(TS_CODE)
    /\ file.obj.date = Str(DashedTable[DayOf(run.latest.trade_date)])
    /\ file.obj.open = Round(run.latest.open, 2)
    /\ file.obj.high = Round(run.latest.high, 2)
    /\ file.obj.low = Round(run.latest.low, 2)
    /\ file.obj.close = Round(run.latest.close, 2)
    /\ file.obj = run.data

\* minutes since midnight of the run's UTC+8 time, and the weekday of its date
MinuteOfDay == run.now_bj_dt.hour * 60 + run.now_bj_dt.minute

Today == run.now_bj_dt.day

\* the run got as far as computing the expected date
Computed == run.status \notin {"idle", "error"}

\* a file that is missing, not JSON, not a JSON object, or whose date is absent,
\* empty or not 10 characters long
Malformed(f) ==
    \/ f.kind \in {"missing", "garbage"}
    \/ f.kind = "json" /\ f.top # "object"
    \/ /\ f.kind = "json" /\ f.top = "object"
       /\ \/ f.obj.date \in {Absent, None}
          \/ f.obj.date.t = "str" /\ Len(f.obj.date.s) # 10

\* the bar's amount is missing: no such field, null, empty, or a missing float
AmountMissing(a) == a \in {Absent, None, Str(<<>>), NaN}

-----------------------------------------------------------------------------
(* Properties *)

\* C1: a run with the credential, at least one row, the latest trade date strictly
\* earlier than the expected date and no truthy FORCE_UPDATE leaves the file as
\* it was, whatever it held.
C1_StaleLeavesFile ==
    (GotRows /\ LatestEarlier /\ NotForced) => FileUntouched

C1_Witness ==
    /\ GotRows /\ LatestEarlier /\ run.forceEnv = Env(TRUE, <<"0">>)
    /\ run.status = "stale"
    /\ run.prevFile.kind = "json" /\ run.prevFile.top = "object"

\* C2: a run whose latest trade date YYYYMMDD is the date YYYY-MM-DD stored in the
\* file, without FORCE_UPDATE, leaves the file as it was, also when the fetched
\* prices differ from the stored ones.
C2_SameDateLeavesFile ==
    \A d \in Days :
        ( /\ GotRows /\ NotForced
          /\ run.latest.trade_date = DayTable[d]
          /\ run.prevFile.kind = "json" /\ run.prevFile.top = "object"
          /\ run.prevFile.obj.date = Str(DashedTable[d]) )
        => FileUntouched

C2_Witness ==
    /\ GotRows /\ NotForced /\ ~LatestEarlier
    /\ run.status = "same"
    /\ run.prevFile.obj.date = Str(DashedTable[DayOf(run.latest.trade_date)])
    /\ run.prevFile.obj.close # run.data.close
    /\ run.prevFile.obj.volume # run.data.volume

\* C3: the date read back from a file a run wrote for the 8-digit trade date D is
\* D, and a later run without FORCE_UPDATE whose latest trade date is still D
\* writes nothing, wherever the expected date has moved.
C3_IdempotentOnDate ==
    /\ (run.status = "written" /\ Len(run.latest.trade_date) = 8)
        => load_existing_date(file) = Date(run.latest.trade_date)
    /\ ( /\ GotRows /\ NotForced
         /\ run.prevWrite.some
         /\ Len(run.prevWrite.td) = 8
         /\ run.prevWrite.td = run.latest.trade_date )
        => FileUntouched

C3_Witness ==
    /\ GotRows /\ NotForced /\ ~LatestEarlier
    /\ run.prevWrite.some
    /\ run.prevWrite.td = run.latest.trade_date
    /\ DayOf(run.prevWrite.expected) < DayOf(run.expected_td)
    /\ run.status = "same"

\* C4: on a weekday before 17:30 (UTC+8) the expected date is the most recent
\* weekday strictly before today: Friday (today - 3) on a Monday, today - 1 on
\* Tuesday to Friday.
C4_WeekdayBeforeCutoff ==
    (Computed /\ Weekday(Today) \in 0..4 /\ MinuteOfDay < 17 * 60 + 30)
    => LET e == DayOf(run.expected_td)
       IN  /\ run.expected_td = DayTable[IF Weekday(Today) = 0 THEN Today - 3
                                                               ELSE Today - 1]
           /\ e < Today
           /\ Weekday(e) \in 0..4
           /\ \A d \in (e + 1) .. (Today - 1) : Weekday(d) \in {5, 6}

C4_Witness ==
    /\ Computed
    /\ Weekday(Today) = 0 /\ run.now_bj_dt.hour = 10
    /\ run.expected_td = DayTable[Today - 3]
    /\ Weekday(Today - 3) = 4
    /\ run.now_bj_dt.day = 19723                        \* Monday 2024-01-01
    /\ run.expected_td = <<"2", "0", "2", "3", "1", "2", "2", "9">>

\* C5: on a weekday at or after 17:30:00 (UTC+8), 17:30:00 sharp included, the
\* expected date is today.
C5_WeekdayFromCutoff ==
    (Computed /\ Weekday(Today) \in 0..4 /\ MinuteOfDay >= 17 * 60 + 30)
    => run.expected_td = DayTable[Today]

C5_Witness ==
    /\ Computed
    /\ Weekday(Today) \in 0..4
    /\ run.now_bj_dt.hour = 17 /\ run.now_bj_dt.minute = 30
    /\ run.now_bj_dt.second = 0 /\ run.now_bj_dt.micro = 0
    /\ run.expected_td = DayTable[Today]

\* C6: on a Saturday or Sunday (UTC+8), at any time of day, the expected date is
\* the preceding Friday: today - 1 on Saturday, today - 2 on Sunday.
C6_WeekendIsFriday ==
    (Computed /\ Weekday(Today) \in {5, 6})
    => /\ run.expected_td = DayTable[IF Weekday(Today) = 5 THEN Today - 1
                                                            ELSE Today - 2]
       /\ Weekday(DayOf(run.expected_td)) = 4

C6_Witness ==
    /\ Computed
    /\ Weekday(Today) = 6 /\ MinuteOfDay >= 17 * 60 + 30
    /\ run.expected_td = DayTable[Today - 2]

\* C7: without the credential (unset or empty) the run ends in an error before any
\* provider query and leaves the file alone; on an empty or absent answer it ends
\* normally and leaves the file alone; so the file changes only in a run with the
\* credential and a non-empty answer.
C7_WriteNeedsTokenAndRows ==
    /\ (Started /\ run.token \in {NoToken, EmptyToken})
        => (run.status = "error" /\ run.queries = 0 /\ FileUntouched)
    /\ (Started /\ run.answer \in {"none", "empty"})
        => (run.status = "nodata" /\ FileUntouched)
    /\ (Started /\ ~FileUntouched) => GotRows
    /\ run.status = "error" => run.token \in {NoToken, EmptyToken}

C7_Witness ==
    /\ run.token = EmptyToken
    /\ run.status = "error" /\ run.queries = 0
    /\ run.prevFile.kind = "json"
    /\ FileUntouched

\* C8: a file that is missing, not JSON, not a JSON object, or whose date is absent,
\* empty or not 10 characters long has no prior date (load_existing_date gives
\* None), and a run whose latest trade date is not earlier than the expected date
\* then ends normally having overwritten the file with the fetched bar.
C8_MalformedFileIsNoDate ==
    Malformed(run.prevFile)
    => /\ load_existing_date(run.prevFile) = NoDate
       /\ (GotRows /\ ~LatestEarlier)
           => /\ run.status = "written"
              /\ run.existing_td = NoDate
              /\ run.writes = 1
              /\ FileHoldsLatest

C8_Witness ==
    /\ GotRows /\ ~LatestEarlier /\ NotForced
    /\ run.prevFile.kind = "json" /\ run.prevFile.top = "object"
    /\ run.prevFile.obj.date.t = "str"
    /\ Len(run.prevFile.obj.date.s) = 9
    /\ run.status = "written"
    /\ FileHoldsLatest

\* C9: the record's amount is close times the integer volume, rounded to 2
\* decimals, whenever the bar's amount is missing (no such field, null, or not
\* provided in any other way), and the provided amount rounded to 2 decimals
\* otherwise.
C9_AmountDerivedWhenMissing ==
    run.status \in {"same", "written"}
    => IF AmountMissing(run.latest.amount)
       THEN run.data.amount = Round(Num(run.latest.close.n * run.data.volume.n), 2)
       ELSE run.data.amount = Round(run.latest.amount, 2)

\* C10: with the credential and a non-empty answer, the file is overwritten exactly
\* once with the record of the latest bar whenever FORCE_UPDATE is truthy, or the
\* latest date is not earlier than the expected date and differs from the stored
\* date; the file's date is then the latest trade date as YYYY-MM-DD. (Across
\* runs the stored date can so move backwards.)
C10_WriteDecision ==
    ( /\ GotRows
      /\ \/ Forced
         \/ /\ ~LatestEarlier
            /\ load_existing_date(run.prevFile) # Date(run.latest.trade_date) )
    => /\ run.status = "written"
       /\ run.writes = 1
       /\ FileHoldsLatest
       /\ lastWrite = Write(run.latest.trade_date, run.expected_td)

\* the stored date moves backwards: an earlier run wrote a date later than it
\* expected, and this run, no earlier than that one, writes an earlier date
C10_Witness ==
    /\ GotRows /\ NotForced
    /\ run.status = "written" /\ run.writes = 1
    /\ run.prevWrite.some
    /\ DayOf(run.prevWrite.expected) < DayOf(run.prevWrite.td)
    /\ DayOf(run.prevWrite.expected) <= DayOf(run.expected_td)
    /\ load_existing_date(run.prevFile) = Date(run.prevWrite.td)
    /\ DayOf(run.latest.trade_date) < DayOf(run.prevWrite.td)
    /\ FileHoldsLatest

====
